---- MODULE Spec2Model ----
(***************************************************************************)
(* mplusprep: conversion of a table into Mplus input artifacts.            *)
(*                                                                         *)
(* An identifier is a sequence of one-character strings.  Two state        *)
(* machines share the variables below:                                     *)
(*   SanSpec  - sanitize_names called on any list of distinct identifiers  *)
(*   Spec     - convert, which calls sanitize_names after consent          *)
(***************************************************************************)
EXTENDS Integers, Sequences, FiniteSets, TLC

\* ------------------------------------------------------------------ bounds
MaxCols == 4          \* longest column list explored

\* ------------------------------------------------------- program constants
MaxNameLen == 8       \* n[:8], len(c) > 8
PerturbKeep == 7      \* n[:7]
PerLine == 5          \* fmt_names(per_line=5)
MedRoles == 3         \* df.columns[:3]
ModRoles == 4         \* df.columns[:4]

\* ------------------------------------------------------------- characters
Letters == {"X", "W", "v"}
Digits == {"0", "1", "2", "3", "4", "5", "6", "7", "8", "9"}
WordChars == Letters \cup Digits \cup {"_"}      \* the class [A-Za-z0-9_]
Newline == "\n"

Min(a, b) == IF a < b THEN a ELSE b

\* s[:k]
Take(s, k) == SubSeq(s, 1, Min(k, Len(s)))

\* the decimal digit d as a character
DigitChar(d) == <<"0", "1", "2", "3", "4", "5", "6", "7", "8", "9">>[d + 1]

\* str(k) for k >= 0
RECURSIVE Str(_)
Str(k) == IF k < 10 THEN <<DigitChar(k)>> ELSE Str(k \div 10) \o <<DigitChar(k % 10)>>

\* ^[A-Za-z][A-Za-z0-9_]* matched against the whole of s
FullWord(s) ==
    /\ Len(s) >= 1
    /\ s[1] \in Letters
    /\ \A i \in 1..Len(s) : s[i] \in WordChars

\* re.match(r"^[A-Za-z][A-Za-z0-9_]*$", c): $ matches at the end of the
\* string and also just before a newline that ends the string
ReMatch(c) ==
    \/ FullWord(c)
    \/ /\ Len(c) >= 2
       /\ c[Len(c)] = Newline
       /\ FullWord(Take(c, Len(c) - 1))

\* the length test of illegal_names
TooLongMut(c) == Len(c) > PerturbKeep
TooLong(c) == Len(c) > MaxNameLen

IsIllegal(c) == ~ReMatch(c) \/ TooLong(c)

illegal_names(cols) == SelectSeq(cols, IsIllegal)

\* re.sub(r"[^A-Za-z0-9_]", "", c)
InWordChars(ch) == ch \in WordChars
Strip(c) == SelectSeq(c, InWordChars)

\* if not n or n[0].isdigit(): n = f"v{counter}"
Placeholder(n, k) == IF n = <<>> \/ n[1] \in Digits THEN <<"v">> \o Str(k) ELSE n

\* n = n[:8]
TruncateMut(n) == Take(n, PerturbKeep)
Truncate(n) == Take(n, MaxNameLen)

\* the candidate of one column: lines 30-33
Candidate(c, k) == Truncate(Placeholder(Strip(c), k))

\* while n in used
CollidesMut(n, u) == FALSE
Collides(n, u) == n \in u

\* n = n[:7] + str(counter % 10)
Perturb(n, k) == Take(n, PerturbKeep) \o Str(k % 10)

\* ------------------------------------------------------------ input space
Pad == <<"X", "X", "X", "X", "X", "X", "X">>

\* Column identifiers explored: legal names, names with a disallowed
\* character, a digit-led and an underscore-led name, a name ending in a
\* newline, and names of 8 and 9 characters.
Idents ==
    { <<"X">>, <<"W">>, <<"X", "W">>, <<"v", "1">>, <<"X", "!">>, <<"_", "X">>,
      <<"2">>, <<"X", Newline>>, Pad \o <<"2">>, Pad \o <<"2", "!">> }

Range(s) == {s[i] : i \in 1..Len(s)}

\* lists of distinct identifiers of length n
RECURSIVE ListsOfLen(_)
ListsOfLen(n) ==
    IF n = 0 THEN {<<>>}
    ELSE {Append(l, c) : l \in ListsOfLen(n - 1), c \in Idents}

Distinct(s) == Cardinality(Range(s)) = Len(s)

ColumnLists == UNION {{l \in ListsOfLen(n) : Distinct(l)} : n \in 0..MaxCols}

\* ------------------------------------------------------------------ state
VARIABLES
    pc,        \* position in convert; "none" when convert is not running
    ext,       \* read_data: ext, the extension of the input path; "" outside read_data
    mode,      \* "m" or "w"
    src,       \* column identifiers of the table as ingested
    df,        \* column identifiers of the table (df.columns)
    enc,       \* encoding returned by read_csv_with_fallback, <<>> if none
    bad,       \* illegal_names(df.columns)
    mp,        \* convert's mp: [isNone, items]
    asked,     \* calls of input(): sequence of <<prompt, answer>>
    printed,   \* mapping lines printed by convert
    err,       \* kind of the exception raised, "" if none
    datFile,   \* <prefix>.dat: <<>> if absent, else <<content>>
    inpFile,   \* <prefix>.inp: <<>> if absent, else <<content>>
    mapFile,   \* <prefix>_variable_map.csv: <<>> if absent, else <<rows>>
    spc,       \* position in sanitize_names: "idle", "for", "while", "perturb", "ret"
    cols,      \* sanitize_names: argument
    si,        \* sanitize_names: index of the column the for loop is at
    n,         \* sanitize_names: candidate name
    used,      \* sanitize_names: set of assigned names
    smp,       \* sanitize_names: mp, pairs <<original, generated>> in insertion order
    counter    \* sanitize_names: counter

sanVars == <<spc, cols, si, n, used, smp, counter>>
cvtVars == <<pc, ext, mode, src, df, enc, bad, mp, asked, printed, err,
             datFile, inpFile, mapFile>>
vars == <<pc, ext, mode, src, df, enc, bad, mp, asked, printed, err,
          datFile, inpFile, mapFile, spc, cols, si, n, used, smp, counter>>

\* --------------------------------------------------------------- dict ops
Keys(d) == {d[i][1] : i \in 1..Len(d)}
Values(d) == {d[i][2] : i \in 1..Len(d)}

\* mp[k] = v on an insertion-ordered dict
DictSet(d, k, v) ==
    IF k \in Keys(d)
    THEN [i \in 1..Len(d) |-> IF d[i][1] = k THEN <<k, v>> ELSE d[i]]
    ELSE Append(d, <<k, v>>)

\* mp[k]
DictGet(d, k) == d[CHOOSE i \in 1..Len(d) : d[i][1] = k][2]

\* ---------------------------------------------------------- sanitize_names
\* mp, used, counter = {}, set(), 1 and entry to the for loop
SanEnter(c) ==
    /\ spc' = "for"
    /\ cols' = c
    /\ si' = 1
    /\ n' = <<>>
    /\ used' = {}
    /\ smp' = <<>>
    /\ counter' = 1

SanIdle ==
    /\ spc = "idle"
    /\ cols = <<>>
    /\ si = 0
    /\ n = <<>>
    /\ used = {}
    /\ smp = <<>>
    /\ counter = 0

\* for c in cols: lines 30-33
SanFor ==
    /\ spc = "for"
    /\ si <= Len(cols)
    /\ n' = Candidate(cols[si], counter)
    /\ spc' = "while"
    /\ UNCHANGED <<cols, si, used, smp, counter>>
    /\ UNCHANGED cvtVars

\* while n in used: the test succeeds and the body is entered
SanCollide ==
    /\ spc = "while"
    /\ Collides(n, used)
    /\ spc' = "perturb"
    /\ UNCHANGED <<cols, si, n, used, smp, counter>>
    /\ UNCHANGED cvtVars

\* n = n[:7] + str(counter % 10), then back to the test
SanPerturb ==
    /\ spc = "perturb"
    /\ n' = Perturb(n, counter)
    /\ spc' = "while"
    /\ UNCHANGED <<cols, si, used, smp, counter>>
    /\ UNCHANGED cvtVars

\* lines 36-38
SanAssign ==
    /\ spc = "while"
    /\ ~Collides(n, used)
    /\ smp' = DictSet(smp, cols[si], n)
    /\ used' = used \cup {n}
    /\ counter' = counter + 1
    /\ si' = si + 1
    /\ spc' = "for"
    /\ UNCHANGED <<cols, n>>
    /\ UNCHANGED cvtVars

\* return mp
SanReturn ==
    /\ spc = "for"
    /\ si > Len(cols)
    /\ spc' = "ret"
    /\ UNCHANGED <<cols, si, n, used, smp, counter>>
    /\ UNCHANGED cvtVars

NoMp == [isNone |-> TRUE, items |-> <<>>]

CvtIdle ==
    /\ pc = "none"
    /\ ext = ""
    /\ mode = ""
    /\ src = <<>>
    /\ df = <<>>
    /\ enc = <<>>
    /\ bad = <<>>
    /\ mp = NoMp
    /\ asked = <<>>
    /\ printed = <<>>
    /\ err = ""
    /\ datFile = <<>>
    /\ inpFile = <<>>
    /\ mapFile = <<>>

\* sanitize_names(cols) called on any list of distinct identifiers
SanInit ==
    /\ CvtIdle
    /\ spc = "for"
    /\ cols \in ColumnLists
    /\ si = 1
    /\ n = <<>>
    /\ used = {}
    /\ smp = <<>>
    /\ counter = 1

SanNext == SanFor \/ SanCollide \/ SanPerturb \/ SanAssign \/ SanReturn

SanSpec == SanInit /\ [][SanNext]_vars

\* the interpreter runs the loop whenever it can take a step
SanFairSpec == SanSpec /\ WF_vars(SanNext)

\* ------------------------------------------------------------ environment
Exts == {".csv", ".CSV", ".xlsx", ".xls", ".sav", ".txt"}
Modes == {"m", "w"}
Answers == {"y", "Y", "n", "", "yes"}

\* str.lower() on the strings explored
LowerStr(s) ==
    CASE s = "Y" -> "y"
      [] s = ".CSV" -> ".csv"
      [] OTHER -> s

\* for e in ["utf-8", "gbk", "gb2312", "cp936", "latin1"]
Candidates == <<"utf-8", "gbk", "gb2312", "cp936", "latin1">>

\* The encodings under which a file's bytes decode.  latin1 maps every byte
\* to a character, cp936 names the gbk codec, and gb2312 is a subset of gbk.
DecodeSets ==
    {d \in SUBSET Range(Candidates) :
        /\ "latin1" \in d
        /\ ("cp936" \in d) <=> ("gbk" \in d)
        /\ ("gb2312" \in d) => ("gbk" \in d)}

\* the first candidate from position i on that decodes, "" if none does
RECURSIVE FirstDecoding(_, _)
FirstDecoding(d, i) ==
    IF i > Len(Candidates) THEN ""
    ELSE IF Candidates[i] \in d THEN Candidates[i]
    ELSE FirstDecoding(d, i + 1)

\* input(...).lower() == "y"
Affirms(a) == LowerStr(a) = "y"

\* input(...).lower() != "y"
RefusedMut(a) == a = "n"
Refused(a) == LowerStr(a) # "y"

\* ----------------------------------------------------------------- convert
Exists(f) == f # <<>>

Raise(kind) ==
    /\ err' = kind
    /\ pc' = "error"

\* read_csv_with_fallback, called from read_data for a .csv path
ReadCsv ==
    /\ pc = "read_data"
    /\ LowerStr(ext) = ".csv"
    /\ \E d \in DecodeSets, c \in ColumnLists :
          LET e == FirstDecoding(d, 1) IN
          IF e # ""
          THEN /\ enc' = <<e>>
               /\ df' = c
               /\ src' = c
               /\ pc' = "read_csv_ret"
               /\ UNCHANGED <<asked, err>>
          ELSE \E a \in Answers :
                  /\ asked' = Append(asked, <<"encoding", a>>)
                  /\ IF Affirms(a)
                     THEN /\ enc' = <<"latin1">>
                          /\ df' = c
                          /\ src' = c
                          /\ pc' = "read_csv_ret"
                          /\ UNCHANGED err
                     ELSE /\ Raise("encoding")
                          /\ UNCHANGED <<enc, df, src>>
    /\ UNCHANGED <<ext, mode, bad, mp, printed, datFile, inpFile, mapFile>>
    /\ UNCHANGED sanVars

\* return read_csv_with_fallback(p)[0]
ReadCsvReturn ==
    /\ pc = "read_csv_ret"
    /\ enc' = <<>>
    /\ ext' = ""
    /\ pc' = "validate"
    /\ UNCHANGED <<mode, src, df, bad, mp, asked, printed, err,
                   datFile, inpFile, mapFile>>
    /\ UNCHANGED sanVars

\* pd.read_excel / pyreadstat.read_sav
ReadBinary ==
    /\ pc = "read_data"
    /\ LowerStr(ext) \in {".xlsx", ".xls", ".sav"}
    /\ \E c \in ColumnLists :
          /\ df' = c
          /\ src' = c
    /\ ext' = ""
    /\ pc' = "validate"
    /\ UNCHANGED <<mode, enc, bad, mp, asked, printed, err,
                   datFile, inpFile, mapFile>>
    /\ UNCHANGED sanVars

\* raise ValueError for any other extension
ReadUnsupported ==
    /\ pc = "read_data"
    /\ LowerStr(ext) \notin {".csv", ".xlsx", ".xls", ".sav"}
    /\ Raise("format")
    /\ UNCHANGED <<ext, mode, src, df, enc, bad, mp, asked, printed,
                   datFile, inpFile, mapFile>>
    /\ UNCHANGED sanVars

\* bad = illegal_names(df.columns); if bad:
Validate ==
    /\ pc = "validate"
    /\ bad' = illegal_names(df)
    /\ pc' = IF bad' # <<>> THEN "prompt" ELSE "write_dat"
    /\ UNCHANGED <<ext, mode, src, df, enc, mp, asked, printed, err,
                   datFile, inpFile, mapFile>>
    /\ UNCHANGED sanVars

\* the sanitization prompt; on consent sanitize_names(df.columns) is called
Prompt ==
    /\ pc = "prompt"
    /\ \E a \in Answers :
          /\ asked' = Append(asked, <<"names", a>>)
          /\ IF Refused(a)
             THEN /\ Raise("naming")
                  /\ UNCHANGED sanVars
             ELSE /\ pc' = "sanitize"
                  /\ SanEnter(df)
                  /\ UNCHANGED err
    /\ UNCHANGED <<ext, mode, src, df, enc, bad, mp, printed,
                   datFile, inpFile, mapFile>>

Changed(kv) == kv[1] # kv[2]

\* df.rename(columns=mp)
RenameColumns(c, m) ==
    [i \in 1..Len(c) |-> IF c[i] \in Keys(m) THEN DictGet(m, c[i]) ELSE c[i]]

\* the lines printed by the loop over mp.items(): if k != v
PrintedLines(m) == SelectSeq(m, Changed)

\* mp = sanitize_names(...) returns; df = df.rename(columns=mp); print
Rename ==
    /\ pc = "sanitize"
    /\ spc = "ret"
    /\ mp' = [isNone |-> FALSE, items |-> smp]
    /\ df' = RenameColumns(df, smp)
    /\ printed' = PrintedLines(smp)
    /\ pc' = "write_dat"
    /\ UNCHANGED <<ext, mode, src, enc, bad, asked, err, datFile, inpFile, mapFile>>
    /\ UNCHANGED sanVars

\* write_dat(df, dat): one line per row, one field per column
WriteDat ==
    /\ pc = "write_dat"
    /\ \E ok \in BOOLEAN :
          IF ok
          THEN /\ datFile' = <<[fields |-> Len(df)]>>
               /\ pc' = "write_inp"
               /\ UNCHANGED err
          ELSE /\ Raise("io")
               /\ UNCHANGED datFile
    /\ UNCHANGED <<ext, mode, src, df, enc, bad, mp, asked, printed, inpFile, mapFile>>
    /\ UNCHANGED sanVars

\* names[i:i + per_line] for i in range(0, len(names), per_line)
RECURSIVE fmt_names(_)
fmt_names(names) ==
    IF names = <<>> THEN <<>>
    ELSE <<Take(names, PerLine)>>
         \o fmt_names(SubSeq(names, Min(PerLine, Len(names)) + 1, Len(names)))

XW == <<"X", "W">>

\* the script written by write_inp_med
MedScript(c) ==
    LET X == c[1]
        M == c[2]
        Y == c[3]
    IN [title |-> "Simple mediation model (X M Y)",
        names |-> fmt_names(c),
        usevariables |-> <<X, M, Y>>,
        define |-> <<>>,
        model |-> << [dep |-> M, on |-> <<X>>, labels |-> <<"a">>],
                     [dep |-> Y, on |-> <<M>>, labels |-> <<"b">>],
                     [dep |-> Y, on |-> <<X>>, labels |-> <<"c">>] >>]

\* the script written by write_inp_mod
ModScript(c) ==
    LET X == c[1]
        M == c[2]
        Y == c[3]
        W == c[4]
    IN [title |-> "Moderated mediation model",
        names |-> fmt_names(c),
        usevariables |-> <<X, M, Y, W, XW>>,
        define |-> <<[name |-> XW, left |-> X, right |-> W]>>,
        model |-> << [dep |-> M, on |-> <<X, W, XW>>, labels |-> <<"a1", "a2", "a3">>],
                     [dep |-> Y, on |-> <<M, X>>, labels |-> <<"b", "">>] >>]

\* the number of columns the tuple assignment of the chosen writer unpacks
RolesNeeded(m) == IF m = "w" THEN ModRoles ELSE MedRoles

\* (write_inp_mod if mode == "w" else write_inp_med)(df, inp_file, dat_abs)
WriteInp ==
    /\ pc = "write_inp"
    /\ IF Len(df) < RolesNeeded(mode)
       THEN /\ Raise("unpack")
            /\ UNCHANGED inpFile
       ELSE \E ok \in BOOLEAN :
               IF ok
               THEN /\ inpFile' = <<IF mode = "w" THEN ModScript(df) ELSE MedScript(df)>>
                    /\ pc' = "audit"
                    /\ UNCHANGED err
               ELSE /\ Raise("io")
                    /\ UNCHANGED inpFile
    /\ UNCHANGED <<ext, mode, src, df, enc, bad, mp, asked, printed, datFile, mapFile>>
    /\ UNCHANGED sanVars

\* if mp:
Truthy(m) == ~m.isNone /\ m.items # <<>>

\* the rows of pd.DataFrame(list(mp.items()), columns=["original", "mplus"])
AuditRows(m) == m.items

\* the rename audit is written
WriteMap ==
    /\ pc = "audit"
    /\ Truthy(mp)
    /\ \E ok \in BOOLEAN :
          IF ok
          THEN /\ mapFile' = <<AuditRows(mp)>>
               /\ pc' = "done"
               /\ UNCHANGED err
          ELSE /\ Raise("io")
               /\ UNCHANGED mapFile
    /\ UNCHANGED <<ext, mode, src, df, enc, bad, mp, asked, printed, datFile, inpFile>>
    /\ UNCHANGED sanVars

\* no mapping: convert finishes without an audit file
NoMap ==
    /\ pc = "audit"
    /\ ~Truthy(mp)
    /\ pc' = "done"
    /\ UNCHANGED <<ext, mode, src, df, enc, bad, mp, asked, printed, err,
                   datFile, inpFile, mapFile>>
    /\ UNCHANGED sanVars

\* convert(inp, prefix, mode) is entered and read_data has computed ext
Init ==
    /\ pc = "read_data"
    /\ ext \in Exts
    /\ mode \in Modes
    /\ src = <<>>
    /\ df = <<>>
    /\ enc = <<>>
    /\ bad = <<>>
    /\ mp = NoMp
    /\ asked = <<>>
    /\ printed = <<>>
    /\ err = ""
    /\ datFile = <<>>
    /\ inpFile = <<>>
    /\ mapFile = <<>>
    /\ SanIdle

Next ==
    \/ ReadCsv
    \/ ReadCsvReturn
    \/ ReadBinary
    \/ ReadUnsupported
    \/ Validate
    \/ Prompt
    \/ SanFor
    \/ SanCollide
    \/ SanPerturb
    \/ SanAssign
    \/ SanReturn
    \/ Rename
    \/ WriteDat
    \/ WriteInp
    \/ WriteMap
    \/ NoMap

Spec == Init /\ [][Next]_vars

\* ------------------------------------------------- claims: sanitize_names
\* Symbol Grammar: starts with a letter, only letters, digits and
\* underscore after that, at most 8 characters
SymbolGrammar(s) == FullWord(s) /\ Len(s) <= MaxNameLen

AllLegal(c) == \A i \in 1..Len(c) : SymbolGrammar(c[i])

\* C1: every value of the mapping sanitize_names returns satisfies the
\* Symbol Grammar.
C1_ValuesSatisfyGrammar ==
    spc = "ret" => \A v \in Values(smp) : SymbolGrammar(v)

\* C2: the mapping sanitize_names returns has one entry per input column,
\* in input order, and no two originals map to the same generated name.
C2_TotalInjective ==
    spc = "ret" =>
        /\ Len(smp) = Len(cols)
        /\ \A i \in 1..Len(cols) : smp[i][1] = cols[i]
        /\ Cardinality(Values(smp)) = Len(cols)
        /\ \A i, j \in 1..Len(smp) : smp[i][2] = smp[j][2] => i = j

\* a returned mapping in which a candidate collided and was perturbed
C2_Witness ==
    /\ spc = "ret"
    /\ Len(cols) >= 2
    /\ \E i \in 1..Len(cols) : smp[i][2] # Candidate(cols[i], i)
    /\ \E i, j \in 1..Len(cols) :
          i < j /\ Candidate(cols[i], i) = Candidate(cols[j], j)

\* C8: on a list of identifiers that all satisfy the Symbol Grammar,
\* sanitize_names returns the identity mapping.
C8_IdentityOnLegal ==
    (spc = "ret" /\ AllLegal(cols)) =>
        /\ Len(smp) = Len(cols)
        /\ \A i \in 1..Len(cols) : smp[i] = <<cols[i], cols[i]>>

\* a returned identity mapping of several legal names, one of 8 characters
C8_Witness ==
    /\ spc = "ret"
    /\ AllLegal(cols)
    /\ Len(cols) >= 2
    /\ \E i \in 1..Len(cols) : Len(cols[i]) = MaxNameLen
    /\ \A i \in 1..Len(cols) : smp[i] = <<cols[i], cols[i]>>

\* C9: every call of sanitize_names returns.
C9_Terminates == <>(spc = "ret")

\* -------------------------------------------------------- claims: convert
Finished == pc \in {"done", "error"}

NoArtifacts == ~Exists(datFile) /\ ~Exists(inpFile) /\ ~Exists(mapFile)

\* the sanitization prompt was issued
NamesAsked == \E i \in 1..Len(asked) : asked[i][1] = "names"

\* the sanitization prompt was answered 'y' or 'Y'
NamesSaidYes ==
    \E i \in 1..Len(asked) : asked[i][1] = "names" /\ asked[i][2] \in {"y", "Y"}

\* the encoding prompt was answered 'y' or 'Y'
EncodingSaidYes ==
    \E i \in 1..Len(asked) : asked[i][1] = "encoding" /\ asked[i][2] \in {"y", "Y"}

\* the identifiers of a NAMES listing, in order
RECURSIVE Listed(_)
Listed(lines) == IF lines = <<>> THEN <<>> ELSE Head(lines) \o Listed(Tail(lines))

\* C3: when convert ends, the data file and the script file have both been
\* written or neither has.
C3_AllOrNothing == Finished => (Exists(datFile) <=> Exists(inpFile))

\* C4: the rows of the rename audit are exactly the mapping entries whose
\* original identifier differs from the generated one.
C4_AuditOnlyChanged ==
    Exists(mapFile) => mapFile[1] = SelectSeq(mp.items, Changed)

C6_LegalTableUntouched ==
    AllLegal(src) =>
        /\ ~NamesAsked
        /\ spc = "idle"
        /\ mp = NoMp
        /\ df = src
        /\ ~Exists(mapFile)
        /\ Exists(inpFile) =>
              /\ Listed(inpFile[1].names) = src
              /\ \A i \in 1..RolesNeeded(mode) : inpFile[1].usevariables[i] = src[i]

\* a finished run on a legal table that wrote the script
C6_Witness ==
    /\ pc = "done"
    /\ AllLegal(src)
    /\ Len(src) >= ModRoles
    /\ \E i \in 1..Len(src) : Len(src[i]) = MaxNameLen
    /\ Exists(inpFile)
    /\ Listed(inpFile[1].names) = src

\* C7: the table is built with latin1 only after the encoding prompt was
\* answered 'y'.
C7_Latin1OnlyOnConsent == (enc = <<"latin1">>) => EncodingSaidYes

\* C10: in moderated-mediation mode USEVARIABLES is the first 4 columns
\* followed by XW, its 5 entries are pairwise distinct and XW is no
\* identifier of the NAMES listing.
C10_XWDistinct ==
    (mode = "w" /\ Exists(inpFile)) =>
        LET u == inpFile[1].usevariables IN
        /\ Len(u) = ModRoles + 1
        /\ SubSeq(u, 1, ModRoles) = SubSeq(df, 1, ModRoles)
        /\ u[ModRoles + 1] = XW
        /\ Distinct(u)
        /\ XW \notin Range(Listed(inpFile[1].names))

====
